---- MODULE Spec2Model ----
(***************************************************************************)
(* A model of the passport CAS strategy of src/src/index.ts: the class     *)
(* CasStrategy, its authenticate() entry point and the helpers it calls    *)
(* (logout, getReqService, validate, onceVerified), together with the      *)
(* collaborators whose answers drive it: the CAS server behind axios.get,  *)
(* xml2js.parseString, the host's verification hook and req.logout.        *)
(*                                                                         *)
(* Every authentication attempt keeps a trace of what the strategy did     *)
(* (requests issued, hook invocations, outcomes reported through           *)
(* redirect / fail / success, errors logged); the claims are predicates    *)
(* over those traces.                                                      *)
(***************************************************************************)
EXTENDS Integers, Sequences, FiniteSets, TLC

VARIABLES
    config,  \* CasStrategy.config, set by the constructor
    req,     \* req[a]: the express request of attempt a
    pc,      \* pc[a]: where authenticate() of attempt a stands
    trace    \* trace[a]: what attempt a has done so far, oldest first

vars == <<config, req, pc, trace>>

(***************************************************************************)
(* Bounds of the model.                                                    *)
(***************************************************************************)
\* the largest number of query parameters of a request
MaxParams == 2
\* the largest number of times the verification hook calls completion
MaxDoneCalls == 2

(***************************************************************************)
(* JavaScript values.  Every value is a record tagged with its type.       *)
(***************************************************************************)
Null == [t |-> "null"]
Undefined == [t |-> "undefined"]
Str(s) == [t |-> "string", s |-> s]
\* new Error(message); the message is the sequence of the parts concatenated
Err(parts) == [t |-> "Error", message |-> parts]
\* an object literal; props is a record of its own properties
Obj(props) == [t |-> "object", props |-> props]

\* ToBoolean, as applied by if (x), !x and x || y
Truthy(v) ==
    CASE v.t \in {"null", "undefined"} -> FALSE
      [] v.t = "string" /\ "s" \in DOMAIN v -> v.s # ""
      [] OTHER -> TRUE

\* obj.key
Get(v, key) ==
    IF v.t = "object" /\ key \in DOMAIN v.props THEN v.props[key] ELSE Undefined

\* obj?.key
OptGet(v, key) ==
    IF v.t \in {"null", "undefined"} THEN Undefined ELSE Get(v, key)

\* String(v), as done by string concatenation and by URLSearchParams.set
ToStr(v) ==
    CASE v.t = "string" -> v
      [] v.t = "undefined" -> Str("undefined")
      [] v.t = "null" -> Str("null")
      [] OTHER -> Str("[object Object]")

(***************************************************************************)
(* URLs.  A URL is kept in parsed form: origin, path (the sequence of its  *)
(* segments) and search (the sequence of its query items).  An item of a   *)
(* query string is [name, value, bare]; bare marks an item written without *)
(* "=" ("?a" as opposed to "?a=").                                         *)
(***************************************************************************)
Item(name, value) == [name |-> name, value |-> value, bare |-> FALSE]
BareItem(name) == [name |-> name, value |-> Str(""), bare |-> TRUE]

Front(s) == IF s = <<>> THEN <<>> ELSE SubSeq(s, 1, Len(s) - 1)

\* new URL(ref, base): ref is a path with an optional query, absolute
\* ("/login") or relative ("login"); a relative one replaces the last
\* segment of the base path
NewURL(ref, base) ==
    [origin |-> base.origin,
     path |-> IF ref.absolute THEN ref.path ELSE Front(base.path) \o ref.path,
     search |-> ref.search]

\* url.searchParams: the list of name-value pairs parsed from the query; a
\* bare item has the empty value
SearchParams(url) ==
    [i \in 1..Len(url.search) |-> Item(url.search[i].name, url.search[i].value)]

\* a serialization that leaves out the items whose value is empty
UpdateSearch_DropsEmpty(url, list) ==
    LET Valued(it) == it.value # Str("")
    IN  [url EXCEPT !.search = SelectSeq(list, Valued)]

\* the update steps of URLSearchParams: the list is serialized back into
\* the URL's query, every item as name=value
UpdateSearch(url, list) == [url EXCEPT !.search = list]

FirstIndex(list, name) ==
    CHOOSE i \in 1..Len(list) :
        /\ list[i].name = name
        /\ \A j \in 1..(i - 1) : list[j].name # name

\* url.searchParams.set(name, value): the first item named name takes the
\* value and the others are removed; with none, the pair is appended
SearchParamsSet(url, name, value) ==
    LET list == SearchParams(url)
        has == \E i \in 1..Len(list) : list[i].name = name
        k == FirstIndex(list, name)
        kept == [i \in 1..Len(list) |->
                    IF i = k THEN Item(name, ToStr(value)) ELSE list[i]]
        Keep(i) == i = k \/ list[i].name # name
        idx == SelectSeq([i \in 1..Len(list) |-> i], Keep)
    IN  UpdateSearch(url,
            IF has THEN [i \in 1..Len(idx) |-> kept[idx[i]]]
            ELSE Append(list, Item(name, ToStr(value))))

\* a delete that removes nothing
SearchParamsDelete_KeepsAll(url, name) == UpdateSearch(url, SearchParams(url))

\* url.searchParams.delete(name): every item named name is removed
SearchParamsDelete(url, name) ==
    LET Other(it) == it.name # name
    IN  UpdateSearch(url, SelectSeq(SearchParams(url), Other))

\* url.toString(): the href, a string; it is kept as the parsed URL it
\* serializes, names and values decoded (the percent-encoding of
\* serialization is undone by whoever parses the href)
Href(url) == [t |-> "string", href |-> url]

\* req.query[name], as express parses the query string: undefined when
\* absent, else the (possibly empty) string value
Query(request, name) ==
    LET s == request.originalUrl.search
    IN  IF \E i \in 1..Len(s) : s[i].name = name
        THEN s[FirstIndex(s, name)].value
        ELSE Undefined

(***************************************************************************)
(* The configurations the strategy is constructed with (CasOptions).       *)
(***************************************************************************)
Route(absolute, path) == [absolute |-> absolute, path |-> path, search |-> <<>>]

\* base "https://cas.example.org", routes "/login", "/serviceValidate",
\* "/logout"
RootConfig ==
    [base |-> [origin |-> "https://cas.example.org", path |-> <<>>],
     loginRoute |-> Route(TRUE, <<"login">>),
     validateRoute |-> Route(TRUE, <<"serviceValidate">>),
     logoutRoute |-> Route(TRUE, <<"logout">>),
     serverUrl |-> [origin |-> "https://app.example.org", path |-> <<>>]]

\* base "https://sso.example.org/cas/", routes "login", "p3/serviceValidate",
\* "logout"
PrefixConfig ==
    [base |-> [origin |-> "https://sso.example.org", path |-> <<"cas", "">>],
     loginRoute |-> Route(FALSE, <<"login">>),
     validateRoute |-> Route(FALSE, <<"p3", "serviceValidate">>),
     logoutRoute |-> Route(FALSE, <<"logout">>),
     serverUrl |-> [origin |-> "https://app.example.org", path |-> <<"">>]]

Configs == {RootConfig, PrefixConfig}

(***************************************************************************)
(* The requests.  req.originalUrl is a path and a query string of at most  *)
(* MaxParams items with distinct names (a name given twice, which express  *)
(* parses to an array, is not modelled).                                   *)
(***************************************************************************)
QueryItems ==
    {BareItem("RelayState"), Item("RelayState", Str("")),
     Item("RelayState", Str("rs-1")),
     BareItem("ticket"), Item("ticket", Str("")), Item("ticket", Str("ST-1")),
     BareItem("lang"), Item("lang", Str("fr"))}

RECURSIVE SeqsUpTo(_, _)
SeqsUpTo(S, n) ==
    IF n = 0 THEN {<<>>}
    ELSE LET shorter == SeqsUpTo(S, n - 1)
         IN  shorter \cup {Append(q, x) : q \in shorter, x \in S}

DistinctNames(q) ==
    \A i, j \in 1..Len(q) : q[i].name = q[j].name => i = j

QueryStrings == {q \in SeqsUpTo(QueryItems, MaxParams) : DistinctNames(q)}

Requests ==
    {[originalUrl |-> [absolute |-> TRUE, path |-> <<"auth", "cas">>, search |-> q]] :
        q \in QueryStrings}

(***************************************************************************)
(* XML documents and xml2js.parseString under XML_PARSE_OPTIONS.           *)
(***************************************************************************)
Tag(prefix, local) == [prefix |-> prefix, local |-> local]
\* an element: its tag, its attributes (a record), its text content (""
\* when it has none) and its child elements
Elem(tag, attrs, text, children) ==
    [tag |-> tag, attrs |-> attrs, text |-> text, children |-> children]
NoAttrs == [k \in {} |-> Null]

\* String.prototype.toLowerCase on the tag names the documents use
LowerCase(s) ==
    CASE s \in {"serviceResponse", "SERVICERESPONSE"} -> "serviceresponse"
      [] s \in {"authenticationSuccess", "AUTHENTICATIONSUCCESS"} -> "authenticationsuccess"
      [] s \in {"authenticationFailure", "AUTHENTICATIONFAILURE"} -> "authenticationfailure"
      [] s = "proxySuccess" -> "proxysuccess"
      [] s = "USER" -> "user"
      [] s = "ATTRIBUTES" -> "attributes"
      [] s = "EMAIL" -> "email"
      [] s = "CAS" -> "cas"
      [] OTHER -> s

\* tag name processors that keep the case of the name
TagName_KeepsCase(tag) == tag.local

\* tagNameProcessors: processors.normalize lowers the case of the whole
\* name, then processors.stripPrefix drops the namespace prefix
TagName(tag) ==
    LET normalized == Tag(LowerCase(tag.prefix), LowerCase(tag.local))
    IN  normalized.local

\* The value xml2js builds for an element (explicitArray: false, attributes
\* under "$", text under "_"): the text alone for an element with neither
\* attributes nor children (the empty string for an empty element), else an
\* object.  The children of the documents modelled have distinct names, and
\* no element holds white space alone.
RECURSIVE ElementValue(_)
ElementValue(e) ==
    LET idx == 1..Len(e.children)
        names == {TagName(e.children[i].tag) : i \in idx}
        Child(k) == e.children[CHOOSE i \in idx : TagName(e.children[i].tag) = k]
        keys == names \cup (IF e.attrs # NoAttrs THEN {"$"} ELSE {})
                      \cup (IF e.text # "" THEN {"_"} ELSE {})
    IN  IF names = {} /\ e.attrs = NoAttrs THEN Str(e.text)
        ELSE Obj([k \in keys |->
                    IF k = "$" THEN Obj(e.attrs)
                    ELSE IF k = "_" THEN Str(e.text)
                    ELSE ElementValue(Child(k))])

\* A response body: not well-formed XML, blank, or a document with a root
Malformed == [kind |-> "malformed"]
Blank == [kind |-> "blank"]
Doc(root) == [kind |-> "document", root |-> root]

\* xml2js.parseString(body, XML_PARSE_OPTIONS, callback): the (err, result)
\* the callback is called with, synchronously
ParseString(body) ==
    CASE body.kind = "malformed" ->
            [err |-> Err(<<"Non-whitespace before first tag.">>), result |-> Undefined]
      [] body.kind = "blank" -> [err |-> Null, result |-> Null]
      [] OTHER ->
            [err |-> Null,
             result |-> Obj([k \in {TagName(body.root.tag)} |-> ElementValue(body.root)])]

Cas(local) == Tag("cas", local)
Leaf(tag, text) == Elem(tag, NoAttrs, text, <<>>)
SuccessElem ==
    Elem(Cas("authenticationSuccess"), NoAttrs, "",
         <<Leaf(Cas("user"), "alice"),
           Elem(Cas("attributes"), NoAttrs, "", <<Leaf(Cas("email"), "a@x.com")>>)>>)
UpperSuccessElem ==
    Elem(Tag("", "AUTHENTICATIONSUCCESS"), NoAttrs, "",
         <<Leaf(Tag("", "USER"), "alice"),
           Elem(Tag("", "ATTRIBUTES"), NoAttrs, "", <<Leaf(Tag("", "EMAIL"), "a@x.com")>>)>>)
EmptySuccessElem == Leaf(Cas("authenticationSuccess"), "")
FailureElem ==
    Elem(Cas("authenticationFailure"), [code |-> Str("INVALID_TICKET")],
         "Ticket ST-1 not recognized", <<>>)
NoCodeFailureElem == Leaf(Cas("authenticationFailure"), "Ticket ST-1 not recognized")
EmptyFailureElem == Leaf(Cas("authenticationFailure"), "")
ServiceResponse(children) == Doc(Elem(Cas("serviceResponse"), NoAttrs, "", children))

Bodies ==
    {Malformed, Blank,
     Doc(Leaf(Tag("", "html"), "Service Unavailable")),
     ServiceResponse(<<>>),
     ServiceResponse(<<Leaf(Cas("proxySuccess"), "PGT-1")>>),
     ServiceResponse(<<FailureElem>>),
     ServiceResponse(<<NoCodeFailureElem>>),
     ServiceResponse(<<EmptyFailureElem>>),
     ServiceResponse(<<SuccessElem>>),
     Doc(Elem(Tag("", "SERVICERESPONSE"), NoAttrs, "", <<UpperSuccessElem>>)),
     ServiceResponse(<<EmptySuccessElem>>),
     ServiceResponse(<<FailureElem, SuccessElem>>),
     ServiceResponse(<<EmptyFailureElem, SuccessElem>>)}

(***************************************************************************)
(* What an attempt does, as the events of its trace.                       *)
(***************************************************************************)
\* this.redirect(url), this.fail(challenge), this.success(user, info)
RedirectEvent(url) == [type |-> "redirect", url |-> url]
FailEvent(challenge) == [type |-> "fail", challenge |-> challenge]
SuccessEvent(user, info) == [type |-> "success", user |-> user, info |-> info]
\* this.logError(msg, err)
LogErrorEvent(msg, err) == [type |-> "logError", msg |-> msg, err |-> err]
\* axios.get(url) is issued; it resolves with res, or rejects
GetEvent(url) == [type |-> "get", url |-> url]
ResolvedEvent(res) == [type |-> "resolved", res |-> res]
RejectedEvent(cause) == [type |-> "rejected", cause |-> cause]
\* xml2js.parseString(body, ...) is called
ParseEvent(body) == [type |-> "parseString", body |-> body]
\* this.verify(profile, done) is called
VerifyEvent(profile) == [type |-> "verify", profile |-> profile]
\* the hook calls done(err, profile, info, challenge)
DoneEvent(d) == [type |-> "done", args |-> d]
\* req.logout(callback) is called; the callback is called with err
LogoutEvent == [type |-> "logout"]
LogoutCallbackEvent(err) == [type |-> "logoutCallback", err |-> err]

(***************************************************************************)
(* The environment: the answers of the CAS server, of the host's          *)
(* verification hook and of req.logout.                                    *)
(***************************************************************************)
StatusText(status) ==
    CASE status = 200 -> "OK"
      [] status = 204 -> "No Content"
      [] status = 500 -> "Internal Server Error"
      [] OTHER -> ""

\* the responses of the CAS server to the validation request
Responses ==
    {[status |-> 200, statusText |-> StatusText(200), data |-> b] : b \in Bodies}
    \cup {[status |-> st, statusText |-> StatusText(st), data |-> b] :
            st \in {204, 500}, b \in {Blank, ServiceResponse(<<SuccessElem>>)}}

\* axios' default validateStatus: the promise of axios.get resolves for a
\* 2xx status and rejects for any other
ValidateStatus(status) == status >= 200 /\ status < 300

\* the causes for which the promise of axios.get rejects: no response at
\* all, or a response whose status validateStatus refuses
Rejections ==
    {[code |-> "ECONNREFUSED"]}
    \cup {[code |-> "ERR_BAD_RESPONSE", response |-> res] :
            res \in {r \in Responses : ~ValidateStatus(r.status)}}

Bob == Obj([user |-> Str("bob")])
Admin == Obj([role |-> Str("admin")])
DoneArgs(err, profile, info, challenge) ==
    [err |-> err, profile |-> profile, info |-> info, challenge |-> challenge]

\* the arguments the verification hook calls completion with; the hook may
\* call it before it returns or later, any number of times up to
\* MaxDoneCalls, or never (a hook that throws is not modelled)
HookCompletions ==
    {DoneArgs(Null, Null, Undefined, Undefined),
     DoneArgs(Null, Null, Undefined, Str("no local account")),
     DoneArgs(Err(<<"database down">>), Null, Undefined, Str("try again")),
     DoneArgs(Err(<<"banned">>), Bob, Admin, Str("banned")),
     DoneArgs(Null, Bob, Admin, Undefined),
     DoneArgs(Null, Bob, Undefined, Undefined)}

\* what req.logout passes to its callback
LogoutErrors == {Null, Err(<<"Login sessions require session support">>)}

(***************************************************************************)
(* The strategy.  Each method is the sequence of events it produces.       *)
(***************************************************************************)
\* CasStrategy.getReqService
GetReqService(request) ==
    LET url == NewURL(request.originalUrl, config.serverUrl)
    IN  Href(SearchParamsDelete(url, "ticket"))

\* a callback that turns a logout error into a failure
LogoutCallback_Fails(err) ==
    <<LogoutCallbackEvent(err)>>
    \o (IF Truthy(err)
        THEN <<LogErrorEvent("Failed to log request out", err), FailEvent(err)>>
        ELSE <<>>)

\* the callback logout() hands to req.logout
LogoutCallback(err) ==
    <<LogoutCallbackEvent(err)>>
    \o (IF Truthy(err) THEN <<LogErrorEvent("Failed to log request out", err)>>
        ELSE <<>>)

\* a logout that redirects to the login route
Logout_ToLoginRoute(request, called) ==
    LET redirectURL ==
            SearchParamsSet(
                SearchParamsSet(NewURL(config.loginRoute, config.base),
                                "_eventId", Str("next")),
                "RelayState", Query(request, "RelayState"))
    IN  <<LogoutEvent>>
        \o (IF called = <<>> THEN <<>> ELSE LogoutCallback(called[1]))
        \o <<RedirectEvent(Href(redirectURL))>>

\* CasStrategy.logout; called is the sequence of the errors req.logout calls
\* the callback with before it returns (none, or one)
Logout(request, called) ==
    LET redirectURL ==
            SearchParamsSet(
                SearchParamsSet(NewURL(config.logoutRoute, config.base),
                                "_eventId", Str("next")),
                "RelayState", Query(request, "RelayState"))
    IN  <<LogoutEvent>>
        \o (IF called = <<>> THEN <<>> ELSE LogoutCallback(called[1]))
        \o <<RedirectEvent(Href(redirectURL))>>

\* a completion that does not look at the profile
OnceVerified_IgnoresProfile(err, profile, info, challenge) ==
    IF Truthy(err)
    THEN <<LogErrorEvent("CAS verified callback error", err), FailEvent(challenge)>>
    ELSE <<SuccessEvent(profile, info)>>

\* a completion that does not pass info on
OnceVerified_DropsInfo(err, profile, info, challenge) ==
    IF Truthy(err)
    THEN <<LogErrorEvent("CAS verified callback error", err), FailEvent(challenge)>>
    ELSE IF ~Truthy(profile)
    THEN <<FailEvent(challenge)>>
    ELSE <<SuccessEvent(profile, Undefined)>>

\* CasStrategy.onceVerified
OnceVerified(err, profile, info, challenge) ==
    IF Truthy(err)
    THEN <<LogErrorEvent("CAS verified callback error", err), FailEvent(challenge)>>
    ELSE IF ~Truthy(profile)
    THEN <<FailEvent(challenge)>>
    ELSE <<SuccessEvent(profile, info)>>

\* the hook calls done(d.err, d.profile, d.info, d.challenge)
Done(d) == <<DoneEvent(d)>> \o OnceVerified(d.err, d.profile, d.info, d.challenge)

\* a validate() whose failure branch does not return and goes on to the
\* success branch
Validate_FallsThrough(body, called) ==
    LET parsed == ParseString(body)
        err == parsed.err
        result == parsed.result
        failure == OptGet(Get(result, "serviceresponse"), "authenticationfailure")
        success == OptGet(Get(result, "serviceresponse"), "authenticationsuccess")
    IN  <<ParseEvent(body)>>
        \o (IF Truthy(err) \/ ~Truthy(result)
            THEN OnceVerified(Err(<<"Bad response from server">>), Null,
                              Undefined, Undefined)
            ELSE (IF Truthy(failure)
                  THEN OnceVerified(
                        Err(<<"Authentication failed ",
                              ToStr(OptGet(Get(failure, "$"), "code")).s>>),
                        Null, Undefined, Undefined)
                  ELSE <<>>)
                 \o (IF Truthy(success)
                     THEN <<VerifyEvent(success)>>
                          \o (IF called = <<>> THEN <<>> ELSE Done(called[1]))
                     ELSE OnceVerified(Err(<<"Authentication failed">>), Null,
                                       Undefined, Undefined)))

\* a validate() that looks at the success branch first
Validate_SuccessFirst(body, called) ==
    LET parsed == ParseString(body)
        err == parsed.err
        result == parsed.result
        failure == OptGet(Get(result, "serviceresponse"), "authenticationfailure")
        success == OptGet(Get(result, "serviceresponse"), "authenticationsuccess")
    IN  <<ParseEvent(body)>>
        \o (IF Truthy(err) \/ ~Truthy(result)
            THEN OnceVerified(Err(<<"Bad response from server">>), Null,
                              Undefined, Undefined)
            ELSE IF Truthy(success)
            THEN <<VerifyEvent(success)>>
                 \o (IF called = <<>> THEN <<>> ELSE Done(called[1]))
            ELSE IF Truthy(failure)
            THEN OnceVerified(
                    Err(<<"Authentication failed ",
                          ToStr(OptGet(Get(failure, "$"), "code")).s>>),
                    Null, Undefined, Undefined)
            ELSE OnceVerified(Err(<<"Authentication failed">>), Null,
                              Undefined, Undefined))

\* CasStrategy.validate; called is the sequence of the completions the hook
\* makes before it returns (none, or one), should the hook be called
Validate(body, called) ==
    LET parsed == ParseString(body)
        err == parsed.err
        result == parsed.result
        failure == OptGet(Get(result, "serviceresponse"), "authenticationfailure")
        success == OptGet(Get(result, "serviceresponse"), "authenticationsuccess")
    IN  <<ParseEvent(body)>>
        \o (IF Truthy(err) \/ ~Truthy(result)
            THEN OnceVerified(Err(<<"Bad response from server">>), Null,
                              Undefined, Undefined)
            ELSE IF Truthy(failure)
            THEN OnceVerified(
                    Err(<<"Authentication failed ",
                          ToStr(OptGet(Get(failure, "$"), "code")).s>>),
                    Null, Undefined, Undefined)
            ELSE IF Truthy(success)
            THEN <<VerifyEvent(success)>>
                 \o (IF called = <<>> THEN <<>> ELSE Done(called[1]))
            ELSE OnceVerified(Err(<<"Authentication failed">>), Null,
                              Undefined, Undefined))

\* an authenticate() that validates the body whatever the status
OnResolved_AnyStatus(res, called) == Validate(res.data, called)

\* an authenticate() that asks the CAS server again after a status other
\* than 200
OnResolved_Retries(res, called) ==
    IF res.status = 200
    THEN Validate(res.data, called)
    ELSE <<LogErrorEvent("Failed to validate ticket", Str(res.statusText)),
           FailEvent(Err(<<res.statusText>>)),
           GetEvent(Href(NewURL(config.validateRoute, config.base)))>>

\* authenticate(), once the promise of axios.get has resolved with res
OnResolved(res, called) ==
    IF res.status = 200
    THEN Validate(res.data, called)
    ELSE <<LogErrorEvent("Failed to validate ticket", Str(res.statusText)),
           FailEvent(Err(<<res.statusText>>))>>

\* a validation request whose service is the URL of the request as received
ValidateTarget_KeepsTicket(request) ==
    SearchParamsSet(
        SearchParamsSet(NewURL(config.validateRoute, config.base),
                        "ticket", Query(request, "ticket")),
        "service", Href(NewURL(request.originalUrl, config.serverUrl)))

\* the URL of the validation request
ValidateTarget(request) ==
    SearchParamsSet(
        SearchParamsSet(NewURL(config.validateRoute, config.base),
                        "ticket", Query(request, "ticket")),
        "service", GetReqService(request))

\* the URL of the login redirect
LoginRedirect(request) ==
    SearchParamsSet(NewURL(config.loginRoute, config.base),
                    "service", GetReqService(request))

(***************************************************************************)
(* The state machine.                                                      *)
(***************************************************************************)
Attempts == DOMAIN pc

\* the events of a given type in the trace of attempt a
Events(a, type) ==
    LET OfType(e) == e.type = type IN SelectSeq(trace[a], OfType)
Has(a, type) == Events(a, type) # <<>>

Outcome(e) == e.type \in {"redirect", "fail", "success"}
Outcomes(a) == SelectSeq(trace[a], Outcome)

\* the state after construction, with n requests received and none handled
InitWith(n, requests) ==
    /\ config \in Configs
    /\ req \in [1..n -> requests]
    /\ pc = [a \in 1..n |-> "START"]
    /\ trace = [a \in 1..n |-> <<>>]

Init == InitWith(1, Requests)

\* authenticate(req), up to its return or to the await of axios.get
Authenticate(a) ==
    /\ pc[a] = "START"
    /\ IF Truthy(Query(req[a], "RelayState"))
       THEN \E called \in {<<>>} \cup {<<e>> : e \in LogoutErrors} :
                /\ trace' = [trace EXCEPT ![a] = @ \o Logout(req[a], called)]
                /\ pc' = [pc EXCEPT ![a] = "RETURNED"]
       ELSE IF ~Truthy(Query(req[a], "ticket"))
       THEN /\ trace' = [trace EXCEPT
                            ![a] = @ \o <<RedirectEvent(Href(LoginRedirect(req[a])))>>]
            /\ pc' = [pc EXCEPT ![a] = "RETURNED"]
       ELSE /\ trace' = [trace EXCEPT
                            ![a] = @ \o <<GetEvent(Href(ValidateTarget(req[a])))>>]
            /\ pc' = [pc EXCEPT ![a] = "VALIDATING"]
    /\ UNCHANGED <<config, req>>

\* the promise of axios.get resolves and authenticate() runs to its end
AxiosResolves(a) ==
    /\ pc[a] = "VALIDATING"
    /\ \E res \in {r \in Responses : ValidateStatus(r.status)},
          called \in {<<>>} \cup {<<d>> : d \in HookCompletions} :
            trace' = [trace EXCEPT
                        ![a] = @ \o <<ResolvedEvent(res)>> \o OnResolved(res, called)]
    /\ pc' = [pc EXCEPT ![a] = "RETURNED"]
    /\ UNCHANGED <<config, req>>

\* the promise of axios.get rejects: the await throws and nothing catches
\* it, so the promise of authenticate() rejects
AxiosRejects(a) ==
    /\ pc[a] = "VALIDATING"
    /\ \E cause \in Rejections :
            trace' = [trace EXCEPT ![a] = @ \o <<RejectedEvent(cause)>>]
    /\ pc' = [pc EXCEPT ![a] = "REJECTED"]
    /\ UNCHANGED <<config, req>>

\* a completion that reports the outcome of its first call only
HostCompletes_Guarded(a) ==
    /\ pc[a] = "RETURNED"
    /\ Has(a, "verify")
    /\ Len(Events(a, "done")) < MaxDoneCalls
    /\ \E d \in HookCompletions :
            trace' = [trace EXCEPT
                        ![a] = @ \o (IF Has(a, "done") THEN <<DoneEvent(d)>> ELSE Done(d))]
    /\ UNCHANGED <<config, req, pc>>

\* a completion bound to the strategy and not to the attempt: its outcome
\* is reported on the attempt received last
HostCompletes_OnLastAttempt(a) ==
    /\ pc[a] = "RETURNED"
    /\ Has(a, "verify")
    /\ Len(Events(a, "done")) < MaxDoneCalls
    /\ \E d \in HookCompletions :
        LET last == CHOOSE b \in Attempts : \A c \in Attempts : c <= b
        IN  trace' = [b \in Attempts |->
                        trace[b]
                        \o (IF b = a THEN <<DoneEvent(d)>> ELSE <<>>)
                        \o (IF b = last
                            THEN OnceVerified(d.err, d.profile, d.info, d.challenge)
                            ELSE <<>>)]
    /\ UNCHANGED <<config, req, pc>>

\* the hook, called earlier, calls done after it has returned
HostCompletes(a) ==
    /\ pc[a] = "RETURNED"
    /\ Has(a, "verify")
    /\ Len(Events(a, "done")) < MaxDoneCalls
    /\ \E d \in HookCompletions :
            trace' = [trace EXCEPT ![a] = @ \o Done(d)]
    /\ UNCHANGED <<config, req, pc>>

\* req.logout calls the callback after logout() has returned
LogoutCompletes(a) ==
    /\ Has(a, "logout")
    /\ ~Has(a, "logoutCallback")
    /\ \E err \in LogoutErrors :
            trace' = [trace EXCEPT ![a] = @ \o LogoutCallback(err)]
    /\ UNCHANGED <<config, req, pc>>

Next ==
    \/ \E a \in Attempts : Authenticate(a)
    \/ \E a \in Attempts : AxiosResolves(a)
    \/ \E a \in Attempts : AxiosRejects(a)
    \/ \E a \in Attempts : HostCompletes(a)
    \/ \E a \in Attempts : LogoutCompletes(a)

Spec == Init /\ [][Next]_vars

(***************************************************************************)
(* The login round trip: the browser follows the login redirect of one     *)
(* attempt, the user logs in, and the CAS server sends the browser back to *)
(* the service URL with the ticket it issued added as the last parameter;  *)
(* that request starts a second attempt.                                   *)
(***************************************************************************)
\* the request of an attempt that has not been received yet
NoRequest == [originalUrl |-> [absolute |-> TRUE, path |-> <<>>, search |-> <<>>]]

\* the request the browser makes when the CAS server sends it back to the
\* service URL with a ticket
ReturnRequest(service, ticket) ==
    [originalUrl |->
        [absolute |-> TRUE,
         path |-> service.href.path,
         search |-> Append(service.href.search, Item("ticket", Str(ticket)))]]

\* the service of the login redirects attempt a has made
LoginServices(a) ==
    {e.url.href.search[1].value :
        e \in {trace[a][i] : i \in {j \in 1..Len(trace[a]) :
            /\ trace[a][j].type = "redirect"
            /\ trace[a][j].url.href.search[1].name = "service"}}}

FlowInit ==
    /\ config \in Configs
    /\ req \in {<<r, NoRequest>> : r \in Requests}
    /\ pc = <<"START", "IDLE">>
    /\ trace = <<<<>>, <<>>>>

\* the request that follows the login redirect of attempt a is received as
\* attempt b
CasIssuesTicket(a, b) ==
    /\ pc[b] = "IDLE"
    /\ \E service \in LoginServices(a) :
            req' = [req EXCEPT ![b] = ReturnRequest(service, "ST-1")]
    /\ pc' = [pc EXCEPT ![b] = "START"]
    /\ UNCHANGED <<config, trace>>

FlowNext ==
    \/ Next
    \/ \E a, b \in Attempts : CasIssuesTicket(a, b)

FlowSpec == FlowInit /\ [][FlowNext]_vars

(***************************************************************************)
(* Concurrent attempts: two requests are handled by one strategy, and the  *)
(* steps of their attempts interleave in any order.                        *)
(***************************************************************************)
\* the requests with at most one query parameter, written with a value
ConcRequests ==
    {r \in Requests :
        /\ Len(r.originalUrl.search) <= 1
        /\ \A i \in 1..Len(r.originalUrl.search) :
            /\ ~r.originalUrl.search[i].bare
            /\ r.originalUrl.search[i].value # Str("")}

ConcInit ==
    /\ InitWith(2, ConcRequests)
    /\ config = RootConfig

ConcSpec == ConcInit /\ [][Next]_vars

(***************************************************************************)
(* The claims.                                                             *)
(***************************************************************************)
\* the query items of the request of attempt a, and those with a given name
ReqItems(a) == req[a].originalUrl.search
Named(a, name) == {i \in 1..Len(ReqItems(a)) : ReqItems(a)[i].name = name}
\* the parameter is in the query string, with whatever value
Present(a, name) == Named(a, name) # {}
\* the parameter is in the query string with a value that is not empty
NonEmpty(a, name) == \E i \in Named(a, name) : ReqItems(a)[i].value # Str("")
\* authenticate() has returned or thrown
Ended(a) == pc[a] \in {"RETURNED", "REJECTED"}

\* the name-value pairs of a query
Pairs(items) == [i \in 1..Len(items) |-> <<items[i].name, items[i].value>>]

\* attempt a has reported one outcome, a redirect to the logout route with
\* _eventId=next and the RelayState of the request, has issued no
\* validation request and has reported neither success nor fail
LogoutRedirected(a) ==
    /\ Len(Outcomes(a)) = 1
    /\ Outcomes(a)[1].type = "redirect"
    /\ LET u == Outcomes(a)[1].url.href
       IN  /\ u.origin = config.base.origin
           /\ u.path = NewURL(config.logoutRoute, config.base).path
           /\ \E i \in Named(a, "RelayState") :
                Pairs(u.search) = << <<"_eventId", Str("next")>>,
                                     <<"RelayState", ReqItems(a)[i].value>> >>
    /\ ~Has(a, "get")

\* C1 as stated: for every request whose RelayState query parameter is
\* present, authenticate() ends in exactly one redirect to the CAS logout
\* route carrying _eventId=next and the request's RelayState unchanged,
\* with or without a ticket; no validation request is issued and neither
\* success nor fail is reported.
C1_RelayStatePresentLogsOut ==
    \A a \in Attempts : Ended(a) /\ Present(a, "RelayState") => LogoutRedirected(a)

\* C1 as amended: the same for every request whose RelayState query
\* parameter is present with a value that is not empty.
C1_RelayStateNonEmptyLogsOut ==
    \A a \in Attempts :
        Ended(a) /\ NonEmpty(a, "RelayState") => LogoutRedirected(a)

\* C1, witness: a request with a RelayState and a ticket has been redirected
\* and its local logout has called back
C1_Witness ==
    \E a \in Attempts :
        /\ NonEmpty(a, "RelayState") /\ NonEmpty(a, "ticket")
        /\ Has(a, "redirect") /\ Has(a, "logoutCallback")

\* the items of the request of attempt a other than ticket, in order
NotTicket(it) == it.name # "ticket"
\* attempt a has reported one outcome, a redirect to the login route whose
\* only parameter is service: the public URL of the request less its ticket
LoginRedirected(a) ==
    /\ Len(Outcomes(a)) = 1
    /\ Outcomes(a)[1].type = "redirect"
    /\ LET u == Outcomes(a)[1].url.href
       IN  /\ u.origin = config.base.origin
           /\ u.path = NewURL(config.loginRoute, config.base).path
           /\ Len(u.search) = 1
           /\ u.search[1].name = "service"
           /\ LET service == u.search[1].value.href
              IN  /\ service.origin = config.serverUrl.origin
                  /\ service.path = req[a].originalUrl.path
                  /\ Pairs(service.search) = Pairs(SelectSeq(ReqItems(a), NotTicket))
                  /\ \A i \in 1..Len(service.search) :
                        service.search[i].name # "ticket"
    /\ ~Has(a, "get")
    /\ ~Has(a, "verify")

\* C2: for every request with no logout signal and no ticket (each absent,
\* or present with an empty value), authenticate() ends in exactly one
\* redirect to the CAS login route with service equal to the resolved
\* service URL, which has no ticket parameter; no validation request is
\* issued and the verification hook is not invoked.
C2_NoTicketRedirectsToLogin ==
    \A a \in Attempts :
        Ended(a) /\ ~NonEmpty(a, "RelayState") /\ ~NonEmpty(a, "ticket")
            => LoginRedirected(a)

\* C2, witness: a request with an empty ticket and another parameter has
\* been redirected to the login route
C2_Witness ==
    \E a \in Attempts :
        /\ Present(a, "ticket") /\ Present(a, "lang") /\ ~Present(a, "RelayState")
        /\ Has(a, "redirect")

\* the positions of the trace of attempt a, and the event at one of them
Pos(a) == 1..Len(trace[a])
At(a, i) == trace[a][i]

\* the tags of a CAS validation response, in any of the spellings modelled
IsRootTag(tag) == tag.local \in {"serviceResponse", "SERVICERESPONSE"}
IsSuccessTag(tag) == tag.local \in {"authenticationSuccess", "AUTHENTICATIONSUCCESS"}
IsFailureTag(tag) == tag.local \in {"authenticationFailure", "AUTHENTICATIONFAILURE"}
\* the body is a document with a root service-response element
HasRoot(body) == body.kind = "document" /\ IsRootTag(body.root.tag)
\* the children of the root service-response element whose tag satisfies Is
Branches(body, Is(_)) ==
    IF HasRoot(body)
    THEN {body.root.children[i] : i \in {j \in 1..Len(body.root.children) :
                                            Is(body.root.children[j].tag)}}
    ELSE {}
\* the element has no attribute, no text and no child
IsEmpty(e) == e.attrs = NoAttrs /\ e.text = "" /\ e.children = <<>>

\* the answers the validation request of attempt a got with status 200
Answers200(a) ==
    {At(a, i).res.data : i \in {j \in Pos(a) :
        At(a, j).type = "resolved" /\ At(a, j).res.status = 200}}

\* the failure reason v carries the text
Mentions(v, text) ==
    \/ v = Str(text)
    \/ v.t = "Error" /\ \E k \in 1..Len(v.message) : v.message[k] = text

\* the events that follow the completion call at position i, up to the next
\* completion call
AfterDone(a, i) ==
    LET later == {j \in (i + 1)..Len(trace[a]) : At(a, j).type = "done"}
        end == IF later = {} THEN Len(trace[a])
               ELSE (CHOOSE j \in later : \A k \in later : j <= k) - 1
    IN  SubSeq(trace[a], i + 1, end)

\* C3: success is declared for an attempt only if, earlier in that attempt,
\* the request carried a ticket and no logout signal, a validation request
\* was issued and answered with status 200 and an authentication-success
\* branch, the hook was invoked, and the hook called completion with a
\* falsy error and a truthy profile.
C3_SuccessOnlyThroughVerification ==
    \A a \in Attempts : \A i \in Pos(a) :
        At(a, i).type = "success" =>
            /\ NonEmpty(a, "ticket")
            /\ ~NonEmpty(a, "RelayState")
            /\ \E g \in 1..(i - 1) :
                /\ At(a, g).type = "get"
                /\ \E r \in (g + 1)..(i - 1) :
                    /\ At(a, r).type = "resolved"
                    /\ At(a, r).res.status = 200
                    /\ Branches(At(a, r).res.data, IsSuccessTag) # {}
                    /\ \E v \in (r + 1)..(i - 2) : At(a, v).type = "verify"
            /\ At(a, i - 1).type = "done"
            /\ ~Truthy(At(a, i - 1).args.err)
            /\ Truthy(At(a, i - 1).args.profile)

\* C3, witness: an attempt has declared success
C3_Witness == \E a \in Attempts : Has(a, "success")

\* C4 as stated: when the validation response carries an
\* authentication-failure branch with an error code, the attempt fails with
\* a failure reason that contains that code, and the hook is never invoked.
C4_FailureReasonHasCode ==
    \A a \in Attempts : \A body \in Answers200(a) :
        \A f \in Branches(body, IsFailureTag) :
            "code" \in DOMAIN f.attrs =>
                /\ \E i \in Pos(a) :
                    /\ At(a, i).type = "fail"
                    /\ Mentions(At(a, i).challenge, f.attrs.code.s)
                /\ ~Has(a, "verify")

\* the conditions that are fatal for attempt a: no response to the
\* validation request, a status other than 200, a malformed response, a CAS
\* failure, a response with neither branch, a rejection by the host
Fatal(a) ==
    \/ Has(a, "rejected")
    \/ \E i \in Pos(a) : At(a, i).type = "resolved" /\ At(a, i).res.status # 200
    \/ \E body \in Answers200(a) :
        \/ ~HasRoot(body)
        \/ \E f \in Branches(body, IsFailureTag) : ~IsEmpty(f)
        \/ Branches(body, IsFailureTag) = {} /\ Branches(body, IsSuccessTag) = {}
    \/ \E i \in Pos(a) :
        /\ At(a, i).type = "done"
        /\ (Truthy(At(a, i).args.err) \/ ~Truthy(At(a, i).args.profile))

\* C5 as stated: every fatal condition of an attempt ends with a failure
\* declared through fail; authenticate() never ends an attempt by throwing
\* or rejecting without having declared a failure.
C5_FatalDeclaresFailure ==
    \A a \in Attempts :
        /\ Fatal(a) => Has(a, "fail")
        /\ pc[a] = "REJECTED" => Has(a, "fail")

\* C6 as stated: when the validation request returns a status other than
\* 200, the attempt fails with a reason carrying the status text; the body
\* is never XML-parsed, the hook is never invoked and success is never
\* declared.
C6_Non200FailsWithStatusText ==
    \A a \in Attempts : \A i \in Pos(a) :
        LET e == At(a, i)
            answered ==
                \/ e.type = "resolved"
                \/ e.type = "rejected" /\ "response" \in DOMAIN e.cause
            res == IF e.type = "resolved" THEN e.res ELSE e.cause.response
        IN  answered /\ res.status # 200 =>
                /\ \E j \in Pos(a) :
                    /\ At(a, j).type = "fail"
                    /\ Mentions(At(a, j).challenge, res.statusText)
                /\ ~Has(a, "parseString")
                /\ ~Has(a, "verify")
                /\ ~Has(a, "success")

\* the profile of the authentication-success branches modelled
AliceProfile ==
    Obj([user |-> Str("alice"), attributes |-> Obj([email |-> Str("a@x.com")])])

\* the hook was invoked once, with the profile of alice, and no outcome was
\* reported before the hook called completion
HandedToHook(a) ==
    /\ Len(Events(a, "verify")) = 1
    /\ Events(a, "verify")[1].profile = AliceProfile
    /\ \A i \in Pos(a) :
        Outcome(At(a, i)) => \E j \in 1..(i - 1) : At(a, j).type = "done"

\* C7 as stated: when a 200 validation response has an
\* authentication-success branch and no failure branch, the hook is invoked
\* exactly once with exactly the parsed {user, attributes} profile, and
\* neither success nor fail is reported before the hook calls completion.
C7_SuccessBranchInvokesHook ==
    \A a \in Attempts : \A body \in Answers200(a) :
        /\ Branches(body, IsSuccessTag) # {}
        /\ Branches(body, IsFailureTag) = {}
        => HandedToHook(a)

\* C7 as amended: the same when the authentication-success branch is not an
\* empty element.
C7_NonEmptySuccessBranchInvokesHook ==
    \A a \in Attempts : \A body \in Answers200(a) :
        /\ \E e \in Branches(body, IsSuccessTag) : ~IsEmpty(e)
        /\ Branches(body, IsFailureTag) = {}
        => HandedToHook(a)

\* C7, witness: the hook was invoked on a response spelled in upper case and
\* without prefix, has completed later, and an outcome is reported
C7_Witness ==
    \E a \in Attempts :
        /\ \E body \in Answers200(a) :
                HasRoot(body) /\ body.root.tag.local = "SERVICERESPONSE"
        /\ Has(a, "verify")
        /\ Has(a, "done")
        /\ Outcomes(a) # <<>>

\* C8: when the hook calls completion with a truthy error (whatever the
\* profile), or with a falsy error and a falsy profile, the call reports a
\* failure whose reason is exactly the challenge passed to completion and
\* no success; the attempt of a hook that completes once never declares
\* success.
C8_HostRejectionFails ==
    \A a \in Attempts : \A i \in Pos(a) :
        /\ At(a, i).type = "done"
        /\ (Truthy(At(a, i).args.err) \/ ~Truthy(At(a, i).args.profile))
        => /\ SelectSeq(AfterDone(a, i), Outcome)
                = <<FailEvent(At(a, i).args.challenge)>>
           /\ Len(Events(a, "done")) = 1 => ~Has(a, "success")

\* C8, witness: the hook has called completion with (null, null) and with a
\* truthy error beside a truthy profile
C8_Witness ==
    \E a \in Attempts : \E i, j \in Pos(a) :
        /\ At(a, i).type = "done" /\ At(a, j).type = "done"
        /\ At(a, i).args = DoneArgs(Null, Null, Undefined, Undefined)
        /\ Truthy(At(a, j).args.err) /\ Truthy(At(a, j).args.profile)

\* C9: when the hook calls completion with a falsy error and a truthy
\* profile, the call reports a success carrying exactly that profile and
\* the info passed to completion, and no failure; the attempt of a hook
\* that completes once never reports fail.
C9_HostAcceptanceSucceeds ==
    \A a \in Attempts : \A i \in Pos(a) :
        /\ At(a, i).type = "done"
        /\ ~Truthy(At(a, i).args.err)
        /\ Truthy(At(a, i).args.profile)
        => /\ SelectSeq(AfterDone(a, i), Outcome)
                = <<SuccessEvent(At(a, i).args.profile, At(a, i).args.info)>>
           /\ Len(Events(a, "done")) = 1 => ~Has(a, "fail")

\* C9, witness: the hook has called completion with (null, {user: "bob"},
\* {role: "admin"}) and the attempt has succeeded with both
C9_Witness ==
    \E a \in Attempts :
        /\ \E i \in Pos(a) :
            /\ At(a, i).type = "done"
            /\ At(a, i).args = DoneArgs(Null, Bob, Admin, Undefined)
        /\ \E i \in Pos(a) : At(a, i) = SuccessEvent(Bob, Admin)

\* C10 as stated: when the 200 validation response fails to parse as XML,
\* or parses but has no root service-response element, the attempt fails
\* with the reason "bad response from server" and the hook is never
\* invoked.
C10_BadResponseReason ==
    \A a \in Attempts : \A body \in Answers200(a) :
        ~HasRoot(body) =>
            /\ \E i \in Pos(a) :
                /\ At(a, i).type = "fail"
                /\ Mentions(At(a, i).challenge, "Bad response from server")
            /\ ~Has(a, "verify")

\* C11 as stated: when the 200 validation response has a root
\* service-response element that contains neither an authentication-success
\* nor an authentication-failure branch, the attempt fails with the reason
\* "authentication failed" and the hook is never invoked.
C11_NeitherBranchReason ==
    \A a \in Attempts : \A body \in Answers200(a) :
        /\ HasRoot(body)
        /\ Branches(body, IsSuccessTag) = {}
        /\ Branches(body, IsFailureTag) = {}
        => /\ \E i \in Pos(a) :
                /\ At(a, i).type = "fail"
                /\ Mentions(At(a, i).challenge, "Authentication failed")
           /\ ~Has(a, "verify")

\* the service parameter of the validation requests attempt a has issued
ValidatedServices(a) ==
    {e.url.href.search[2].value :
        e \in {trace[a][i] : i \in {j \in Pos(a) : At(a, j).type = "get"}}}

\* C12: for the same logical request, the service value sent in the login
\* redirect (request without ticket) is identical to the service value sent
\* in the validation request when that request comes back with the ticket
\* parameter added by the CAS server.
C12_ServiceStableAcrossRoundTrip ==
    \A a, b \in Attempts : \A service \in LoginServices(a) :
        req[b] = ReturnRequest(service, "ST-1") /\ pc[b] \notin {"IDLE", "START"}
            => ValidatedServices(b) = {service}

\* C12, witness: a request with an item written without "=" and an empty
\* ticket was redirected to the login route, came back with a ticket and
\* had it validated
C12_Witness ==
    \E a, b \in Attempts : \E service \in LoginServices(a) :
        /\ \E i \in 1..Len(ReqItems(a)) : ReqItems(a)[i].bare
        /\ Present(a, "ticket")
        /\ req[b] = ReturnRequest(service, "ST-1")
        /\ Has(b, "get")

\* the service URLs attempt a has resolved: those of its login redirects and
\* of its validation requests
Services(a) == LoginServices(a) \cup ValidatedServices(a)

\* the request whose URL is the service URL
AsRequest(service) ==
    [originalUrl |->
        [absolute |-> TRUE, path |-> service.href.path, search |-> service.href.search]]

\* C13: service URL resolution is idempotent with respect to ticket removal:
\* resolving the request whose ticket has been removed (the service URL
\* resolved before) yields the same string again; and resolving changes no
\* query parameter other than ticket: the names and values of the others
\* are those of the request, in the same order.
C13_ResolutionIdempotent ==
    \A a \in Attempts : \A service \in Services(a) :
        /\ GetReqService(AsRequest(service)) = service
        /\ Pairs(service.href.search) = Pairs(SelectSeq(ReqItems(a), NotTicket))
        /\ service.href.path = req[a].originalUrl.path

\* C13, witness: the service URL of a request with a ticket and an item
\* written without "=" has been resolved
C13_Witness ==
    \E a \in Attempts :
        /\ Services(a) # {}
        /\ NonEmpty(a, "ticket")
        /\ \E i \in 1..Len(ReqItems(a)) : ReqItems(a)[i].bare

\* C14: in the logout flow the redirect to the CAS logout route is issued
\* exactly once, whether the callback of the local logout reports an error
\* or not and whether it runs before the redirect, after it or never; a
\* local logout error is logged (the event right after the callback) and the
\* attempt reports neither fail nor success.
C14_LogoutRedirectsOnce ==
    \A a \in Attempts :
        Has(a, "logout") =>
            /\ LogoutRedirected(a)
            /\ ~Has(a, "fail") /\ ~Has(a, "success")
            /\ \A i \in Pos(a) :
                At(a, i).type = "logoutCallback" /\ Truthy(At(a, i).err) =>
                    /\ i < Len(trace[a])
                    /\ At(a, i + 1).type = "logError"
                    /\ At(a, i + 1).err = At(a, i).err

\* C14, witness: the callback reported an error after the redirect
C14_Witness ==
    \E a \in Attempts : \E i, j \in Pos(a) :
        /\ At(a, i).type = "redirect"
        /\ At(a, j).type = "logoutCallback"
        /\ i < j
        /\ Truthy(At(a, j).err)

\* C15: in every attempt where the hook calls completion at most once,
\* before it returns or later, at most one outcome among redirect, success
\* and fail is reported, and after that outcome the attempt issues no
\* validation request, invokes the hook no more and reports no second
\* outcome.
C15_OneOutcomeThenNothing ==
    \A a \in Attempts :
        Len(Events(a, "done")) <= 1 =>
            /\ Len(Outcomes(a)) <= 1
            /\ \A i, j \in Pos(a) :
                Outcome(At(a, i)) /\ i < j =>
                    At(a, j).type \notin {"get", "verify", "redirect", "fail", "success"}

\* C15, witness: the hook was invoked and called completion once, and the
\* attempt has reported its outcome
C15_Witness ==
    \E a \in Attempts : \E i, j \in Pos(a) :
        /\ Len(Events(a, "done")) = 1
        /\ At(a, i).type = "verify"
        /\ At(a, j).type = "done"
        /\ i < j
        /\ Len(Outcomes(a)) = 1
        /\ Outcome(At(a, Len(trace[a])))

\* C18: an attempt issues at most one validation request: exactly one, once
\* authenticate() has run, when the request carries a ticket (a non-empty
\* ticket value) and no logout signal (no non-empty RelayState), none on
\* the logout and login-redirect paths, and none after a failure of any
\* kind: a transport error, a status other than 200, or a fail.
C18_AtMostOneValidationRequest ==
    \A a \in Attempts :
        /\ Len(Events(a, "get")) <= 1
        /\ pc[a] # "START" =>
            (Has(a, "get") <=> NonEmpty(a, "ticket") /\ ~NonEmpty(a, "RelayState"))
        /\ Has(a, "logout") \/ Has(a, "redirect") => ~Has(a, "get")
        /\ \A i, j \in Pos(a) :
            /\ i < j
            /\ \/ At(a, i).type \in {"fail", "rejected"}
               \/ At(a, i).type = "resolved" /\ At(a, i).res.status # 200
            => At(a, j).type # "get"

\* C18, witness: an attempt has issued its validation request and failed
\* on a status other than 200
C18_Witness ==
    \E a \in Attempts : \E i \in Pos(a) :
        /\ Len(Events(a, "get")) = 1
        /\ At(a, i).type = "resolved"
        /\ At(a, i).res.status # 200
        /\ Has(a, "fail")

\* C19: completion is not guarded against repeated invocation: every call
\* the hook makes, the first as well as a later one, reports one outcome of
\* its own, fail or success as its own arguments decide, so the outcomes an
\* attempt reports after the hook was invoked are as many as the calls.
C19_EveryCompletionReports ==
    \A a \in Attempts :
        /\ \A i \in Pos(a) :
            At(a, i).type = "done" =>
                LET d == At(a, i).args
                    reported == SelectSeq(AfterDone(a, i), Outcome)
                IN  /\ Len(reported) = 1
                    /\ reported[1].type =
                        (IF Truthy(d.err) \/ ~Truthy(d.profile) THEN "fail" ELSE "success")
        /\ Has(a, "verify") => Len(Outcomes(a)) = Len(Events(a, "done"))

\* C19, witness: one attempt has reported a failure and then a success
C19_Witness ==
    \E a \in Attempts : \E i, j \in Pos(a) :
        /\ Len(Events(a, "done")) = 2
        /\ i < j
        /\ At(a, i).type = "fail"
        /\ At(a, j).type = "success"

\* C20 as stated: when a 200 validation response has both an
\* authentication-failure branch and an authentication-success branch, the
\* failure branch takes precedence: the attempt fails, the hook is never
\* invoked and success is never declared.
C20_FailureBranchTakesPrecedence ==
    \A a \in Attempts : \A body \in Answers200(a) :
        /\ Branches(body, IsFailureTag) # {}
        /\ Branches(body, IsSuccessTag) # {}
        => /\ Has(a, "fail")
           /\ ~Has(a, "verify")
           /\ ~Has(a, "success")

\* C20, amended: when a 200 validation response has an
\* authentication-failure branch that is not empty and an
\* authentication-success branch, the failure branch takes precedence: the
\* attempt fails, the hook is never invoked and success is never declared.
\* When the failure branch is empty (no attribute, no text, no child) the
\* success branch that is not empty is handed to the hook.
C20_NonEmptyFailureBranchTakesPrecedence ==
    \A a \in Attempts : \A body \in Answers200(a) :
        Branches(body, IsFailureTag) # {} /\ Branches(body, IsSuccessTag) # {} =>
            IF \E f \in Branches(body, IsFailureTag) : ~IsEmpty(f)
            THEN /\ Has(a, "fail")
                 /\ ~Has(a, "verify")
                 /\ ~Has(a, "success")
            ELSE (\E s \in Branches(body, IsSuccessTag) : ~IsEmpty(s)) => Has(a, "verify")

\* C20, witness: a response with a failure branch carrying a code and a
\* success branch has been answered to an attempt, which has failed
C20_Witness ==
    \E a \in Attempts : \E body \in Answers200(a) :
        /\ \E f \in Branches(body, IsFailureTag) : ~IsEmpty(f)
        /\ Branches(body, IsSuccessTag) # {}
        /\ Has(a, "fail")

\* nothing the attempt waits for is still to come: authenticate() has
\* returned or thrown, so the CAS server has answered the validation request
\* if one was issued, and the hook, if invoked, has called completion
Settled(a) ==
    /\ Ended(a)
    /\ Has(a, "get") => Has(a, "resolved") \/ Has(a, "rejected")
    /\ Has(a, "verify") => Has(a, "done")

\* C17 as stated, in its finite form: once the CAS server has answered the
\* validation request (with a response or a transport error) and the hook,
\* if invoked, has called completion, the attempt has reached a terminal
\* outcome (redirect, success or fail); no attempt stays unresolved.
C17_SettledAttemptHasOutcome ==
    \A a \in Attempts : Settled(a) => Outcomes(a) # <<>>

\* what attempt a got from outside: its request, how far its authenticate()
\* has run, and the answers of the CAS server, the completion calls of the
\* hook and the callbacks of the local logout it has received, in order
Input(e) == e.type \in {"resolved", "rejected", "done", "logoutCallback"}
Inputs(a) == <<req[a], pc[a], SelectSeq(trace[a], Input)>>

\* C16: under any interleaving of concurrent attempts on one strategy, the
\* outcome of each attempt is determined by its own request, its own
\* validation response and its own hook completions only (two attempts that
\* got the same report the same, whatever the order of the steps); every
\* step reports on the one attempt it belongs to and leaves every other
\* attempt as it was; and the configuration is never written after
\* construction.
C16_AttemptsAreIsolated ==
    /\ [](\A a, b \in Attempts : Inputs(a) = Inputs(b) => Outcomes(a) = Outcomes(b))
    /\ [][/\ config' = config
          /\ \E a \in Attempts :
                /\ trace'[a] # trace[a]
                /\ \A b \in Attempts \ {a} :
                    /\ trace'[b] = trace[b]
                    /\ pc'[b] = pc[b]
                    /\ req'[b] = req[b]]_vars

\* C16, witness: two attempts with the same ticket were answered in the
\* other order than they were received, their hooks completed differently,
\* and one has succeeded while the other has failed
C16_Witness ==
    \E a, b \in Attempts :
        /\ a < b
        /\ req[a] = req[b]
        /\ Has(a, "success") /\ ~Has(a, "fail")
        /\ Has(b, "fail") /\ ~Has(b, "success")
        /\ Len(Events(a, "done")) = 1
        /\ Len(Events(b, "done")) = 1

====
